---- MODULE Spec2Model ----
(***************************************************************************)
(* Model of the /ocr request handler of src/main.py (perform_ocr) together *)
(* with its helpers search_google, parse_openai_json and the OCRResponse   *)
(* response model.  One request is followed from the extraction call to    *)
(* its response.  External collaborators (the generation capability, the   *)
(* search service, the submission sink) answer nondeterministically.       *)
(* The image payloads are opaque to every branch of the handler and are    *)
(* not tracked.  Values a reply may hold are strings, null, booleans and a  *)
(* non-zero number.                                                        *)
(***************************************************************************)
EXTENDS Integers, Sequences, FiniteSets, TLC

(***************************************************************************)
(* Bounds                                                                  *)
(***************************************************************************)
\* longest extraction reply, in tokens
MaxTokens == 3
\* most items the search service is allowed to return in this model
MaxItems == 1

\* search_google(query, num_results=3)
num_results == 3

(***************************************************************************)
(* JSON values.  Strings are sequences of one-character strings.           *)
(***************************************************************************)
JStr(s) == [t |-> "str", s |-> s, b |-> FALSE]
JNull == [t |-> "null", s |-> <<>>, b |-> FALSE]
JBool(b) == [t |-> "bool", s |-> <<>>, b |-> b]
\* a non-zero JSON number
JNum == [t |-> "num", s |-> <<"7">>, b |-> FALSE]

\* Python truthiness of a JSON value
Truthy(v) ==
    CASE v.t = "str" -> v.s # <<>>
      [] v.t = "bool" -> v.b
      [] v.t = "num" -> TRUE
      [] OTHER -> FALSE

\* f"{v}"
Fmt(v) ==
    CASE v.t = "str" -> v.s
      [] v.t = "null" -> <<"N", "o", "n", "e">>
      [] v.t = "bool" -> IF v.b THEN <<"T", "r", "u", "e">> ELSE <<"F", "a", "l", "s", "e">>
      [] OTHER -> v.s

EmptyDict == [kk \in {} |-> JNull]

\* dict.get(k, default)
Get(d, k, default) == IF k \in DOMAIN d THEN d[k] ELSE default

\* a parsed JSON document: an object (dict) or something else (array)
Obj(d) == [k |-> "obj", d |-> d]
Arr == [k |-> "arr", d |-> EmptyDict]
\* a local variable that has not been assigned yet
Unset == [k |-> "unset", d |-> EmptyDict]

(***************************************************************************)
(* Reply texts of the generation capability, as token sequences.           *)
(***************************************************************************)
FenceJson == [tok |-> "fence_json", doc |-> Unset]
Fence == [tok |-> "fence", doc |-> Unset]
Prose == [tok |-> "text", doc |-> Unset]
Space == [tok |-> "space", doc |-> Unset]
Json(doc) == [tok |-> "json", doc |-> doc]

Markup == {FenceJson, Fence, Prose, Space}

RECURSIVE SeqsUpTo(_, _)
SeqsUpTo(S, n) ==
    IF n = 0 THEN {<<>>}
    ELSE LET shorter == SeqsUpTo(S, n - 1)
         IN shorter \cup {Append(q, x) : q \in {r \in shorter : Len(r) = n - 1}, x \in S}

\* insert x in q so that it becomes element i
InsertAt(q, i, x) == SubSeq(q, 1, i - 1) \o <<x>> \o SubSeq(q, i, Len(q))

\* texts of at most n tokens holding at most one JSON payload out of docs
ReplyTexts(docs, n) ==
    SeqsUpTo(Markup, n)
    \cup UNION {{InsertAt(q, i, Json(doc)) : i \in 1..(Len(q) + 1), doc \in docs} :
                    q \in SeqsUpTo(Markup, n - 1)}

\* str.split(sep)[0]
RECURSIVE BeforeFirst(_, _)
BeforeFirst(text, sep) ==
    IF text = <<>> \/ Head(text) = sep THEN <<>>
    ELSE <<Head(text)>> \o BeforeFirst(Tail(text), sep)

\* what follows the first occurrence of sep
RECURSIVE AfterFirst(_, _)
AfterFirst(text, sep) ==
    IF text = <<>> THEN <<>>
    ELSE IF Head(text) = sep THEN Tail(text)
    ELSE AfterFirst(Tail(text), sep)

Contains(text, sep) == \E i \in 1..Len(text) : text[i] = sep

\* str.strip()
RECURSIVE LStrip(_)
LStrip(text) ==
    IF text # <<>> /\ Head(text) = Space THEN LStrip(Tail(text)) ELSE text

RECURSIVE RStrip(_)
RStrip(text) ==
    IF text # <<>> /\ text[Len(text)] = Space
    THEN RStrip(SubSeq(text, 1, Len(text) - 1)) ELSE text

Strip(text) == LStrip(RStrip(text))

ParseError == [k |-> "error", d |-> EmptyDict]

\* json.loads: surrounding whitespace is skipped, exactly one value is read
JsonLoads(text) ==
    LET body == Strip(text)
    IN IF Len(body) = 1 /\ body[1].tok = "json" THEN body[1].doc ELSE ParseError

parse_openai_json(response_content) ==
    IF Contains(response_content, FenceJson)
    THEN JsonLoads(Strip(BeforeFirst(
             BeforeFirst(AfterFirst(response_content, FenceJson), FenceJson), Fence)))
    ELSE JsonLoads(response_content)


(***************************************************************************)
(* OCRResponse                                                             *)
(***************************************************************************)
StrFields == {"company", "name", "title", "phone", "email", "address", "website",
              "validation_source", "about_the_company", "location"}
BoolFields == {"is_validated"}
Fields == StrFields \cup BoolFields

\* Field(default=...)
FieldDefault(f) == IF f \in BoolFields THEN JBool(FALSE) ELSE JStr(<<>>)

\* declared type of a field
FieldType(f) == IF f \in BoolFields THEN "bool" ELSE "str"

\* variant: no validation of the field types
OCRResponseAcceptsAll(d) == d # d

\* does OCRResponse(**d) raise a validation error
OCRResponseRejects(d) == \E f \in Fields \cap DOMAIN d : d[f].t # FieldType(f)

\* OCRResponse(**d): undeclared keys are ignored, missing ones take the default
OCRResponse(d) == [f \in Fields |-> IF f \in DOMAIN d THEN d[f] ELSE FieldDefault(f)]

(***************************************************************************)
(* What the collaborators may answer                                       *)
(***************************************************************************)
\* overwrite / add the keys of e in d
Update(d, e) == [key \in DOMAIN d \cup DOMAIN e |-> IF key \in DOMAIN e THEN e[key] ELSE d[key]]

\* remove key from d
Del(d, key) == [x \in DOMAIN d \ {key} |-> d[x]]

\* a dict with the keys of vals whose value is not "absent"
Absent == [t |-> "absent", s |-> <<>>, b |-> FALSE]
Present(vals) == [key \in {x \in DOMAIN vals : vals[x] # Absent} |-> vals[key]]

\* extraction replies: the keys the handler reads from the OCR data
ExtractDocs ==
    {Obj(Present([company |-> c, name |-> n, slogan |-> s])) :
        c \in {JStr(<<>>), JStr(<<"A">>)},
        n \in {JStr(<<>>), JStr(<<"N">>)},
        s \in {Absent, JStr(<<>>), JStr(<<"S">>)}}
    \cup {Arr}

ExtractReplies == ReplyTexts(ExtractDocs, MaxTokens)

\* validation replies: the OCR keys plus website, validation_source, is_validated
ValidateBase ==
    [company |-> JStr(<<"A">>), name |-> JStr(<<"N">>), title |-> JStr(<<"T">>),
     email |-> JStr(<<>>), address |-> JStr(<<>>), location |-> JStr(<<>>),
     website |-> JStr(<<"w">>)]

ValidateDocs ==
    {Obj(Update(ValidateBase,
                Present([is_validated |-> v, validation_source |-> src,
                         phone |-> ph, slogan |-> s]))) :
        v \in {Absent, JNull, JBool(FALSE), JBool(TRUE)},
        src \in {JStr(<<>>), JStr(<<"u">>)},
        ph \in {Absent, JNull, JNum, JStr(<<>>), JStr(<<"5">>), JStr(<<"+", "5">>)},
        s \in {Absent, JStr(<<"S">>)}}
    \cup {Arr}

\* enrichment replies
EnrichBase ==
    [company |-> JStr(<<"A">>), name |-> JStr(<<"N">>),
     email |-> JStr(<<"e">>), address |-> JStr(<<>>), location |-> JStr(<<"L">>),
     website |-> JStr(<<"w">>)]

EnrichDocs ==
    {Obj(Update(EnrichBase,
                Present([is_validated |-> v, validation_source |-> src,
                         phone |-> ph, slogan |-> s, title |-> ti,
                         about_the_company |-> JStr(<<"B">>)]))) :
        v \in {JBool(FALSE), JBool(TRUE)},
        src \in {JStr(<<>>), JStr(<<"u">>)},
        ph \in {JNull, JStr(<<>>), JStr(<<"5">>), JStr(<<"+", "5">>)},
        s \in {Absent, JStr(<<"S">>)},
        ti \in {Absent, JStr(<<"T">>)}}
    \cup {Arr}

\* replies to a call made with response_format json_object
StrictReplies(docs) == {<<Json(doc)>> : doc \in docs} \cup {<<>>, <<Prose>>, <<Json(Arr), Prose>>}

\* search results
None == [k |-> "none", items |-> <<>>]
Items(n) == [k |-> "list", items |-> [i \in 1..n |-> i]]

Min(a, b) == IF a < b THEN a ELSE b

\* the HTTP exchange of search_google: how it ends and what the body holds
SearchExchanges ==
    {[res |-> r, n |-> 0] : r \in {"transport_error", "http_error"}}
    \cup {[res |-> "ok", n |-> n] : n \in 0..Min(MaxItems, num_results)}

\* the submission sink's answers
SinkExchanges ==
    {[res |-> r, body |-> Arr] : r \in {"transport_error", "http_error", "bad_body"}}
    \cup {[res |-> "ok", body |-> b] :
            b \in {Arr, Obj(EmptyDict),
                   Obj([success |-> JBool(FALSE), message |-> JStr(<<"m">>)]),
                   Obj([success |-> JBool(TRUE)])}}

(***************************************************************************)
(* State                                                                   *)
(***************************************************************************)
VARIABLES
    search_configured,          \* GOOGLE_API_KEY and GOOGLE_CSE_ID are both set
    pc,                         \* position of the request in perform_ocr
    gen_reply,                  \* content of the latest generation reply
    ocr_data,
    search_query,
    contact_query,
    google_results_list,
    validated_data,
    enrichment_search_results,
    final_data,
    calls,                      \* calls made to helpers and collaborators, in order
    sink_payload,               \* extractedData of the payload posted to the sink
    save_result,                \* the body the sink answered with
    response                    \* what the caller receives

vars == <<search_configured, pc, gen_reply, ocr_data, search_query, contact_query, google_results_list,
          validated_data, enrichment_search_results, final_data, calls, sink_payload,
          save_result, response>>

NoResponse == [kind |-> "none", status |-> 0, rec |-> EmptyDict]
ErrorResponse(status) == [kind |-> "error", status |-> status, rec |-> EmptyDict]
RecordResponse(rec) == [kind |-> "record", status |-> 200, rec |-> rec]

Call(op, res) == [op |-> op, res |-> res]

Init ==
    /\ search_configured \in BOOLEAN
    /\ pc = "step1"
    /\ gen_reply = <<>>
    /\ ocr_data = Unset
    /\ search_query = <<>>
    /\ contact_query = <<>>
    /\ google_results_list = None
    /\ validated_data = Unset
    /\ enrichment_search_results = None
    /\ final_data = Unset
    /\ calls = <<>>
    /\ sink_payload = EmptyDict
    /\ save_result = Unset
    /\ response = NoResponse

\* the outer except clause: any failure becomes one error response
Fail(status) ==
    /\ pc' = "done"
    /\ response' = ErrorResponse(status)

(***************************************************************************)
(* search_google                                                           *)
(***************************************************************************)
\* how a search ended, for the call log
SearchOutcome(configured, x) ==
    IF ~configured THEN "no_credentials"
    ELSE IF x.res = "ok" THEN (IF x.n > 0 THEN "items" ELSE "no_items")
    ELSE x.res

Returns(value) == [raised |-> FALSE, value |-> value]
Raises == [raised |-> TRUE, value |-> None]

\* variant: transport and status errors are not caught
search_google_unguarded(configured, x) ==
    IF ~configured THEN Returns(None)
    ELSE IF x.res \in {"transport_error", "http_error"} THEN Raises
    ELSE IF x.n > 0 THEN Returns(Items(x.n))
    ELSE Returns(None)

\* search_google for the exchange x: every exception is caught inside
search_google(configured, x) ==
    IF ~configured THEN Returns(None)
    ELSE IF x.res \in {"transport_error", "http_error"} THEN Returns(None)
    ELSE IF x.n > 0 THEN Returns(Items(x.n))
    ELSE Returns(None)


(***************************************************************************)
(* perform_ocr                                                             *)
(***************************************************************************)
\* variant: name+company is tried before company+slogan
BuildQueryNameFirst(d) ==
    LET company == Get(d, "company", JStr(<<>>))
        name == Get(d, "name", JStr(<<>>))
        slogan == Get(d, "slogan", JStr(<<>>))
    IN IF Truthy(company) /\ Truthy(name) THEN Fmt(name) \o <<" ">> \o Fmt(company)
       ELSE IF Truthy(company) /\ Truthy(slogan) THEN Fmt(company) \o <<" ">> \o Fmt(slogan)
       ELSE IF Truthy(company) THEN Fmt(company)
       ELSE IF Truthy(slogan) THEN Fmt(slogan)
       ELSE IF Truthy(name) THEN Fmt(name)
       ELSE <<>>

\* the validation search query
BuildQuery(d) ==
    LET company == Get(d, "company", JStr(<<>>))
        name == Get(d, "name", JStr(<<>>))
        slogan == Get(d, "slogan", JStr(<<>>))
    IN IF Truthy(company) /\ Truthy(slogan) THEN Fmt(company) \o <<" ">> \o Fmt(slogan)
       ELSE IF Truthy(company) /\ Truthy(name) THEN Fmt(name) \o <<" ">> \o Fmt(company)
       ELSE IF Truthy(company) THEN Fmt(company)
       ELSE IF Truthy(slogan) THEN Fmt(slogan)
       ELSE IF Truthy(name) THEN Fmt(name)
       ELSE <<>>

\* the enrichment search query
ContactQuery(d) ==
    <<"\"">> \o Fmt(Get(d, "company", JNull)) \o <<"\"">>
    \o <<" about description location contact info email phone address">>

\* AI step 1: extraction call and parse of its reply
Step1_Extract ==
    /\ pc = "step1"
    /\ UNCHANGED <<search_configured, search_query, contact_query, google_results_list, validated_data,
                   enrichment_search_results, final_data, sink_payload, save_result>>
    /\ \/ /\ calls' = Append(calls, Call("gen_extract", "exception"))
          /\ UNCHANGED <<gen_reply, ocr_data>>
          /\ Fail(500)
       \/ \E text \in ExtractReplies :
            /\ calls' = Append(calls, Call("gen_extract", "reply"))
            /\ gen_reply' = text
            /\ IF parse_openai_json(text) = ParseError
               THEN /\ UNCHANGED ocr_data
                    /\ Fail(500)
               ELSE /\ ocr_data' = parse_openai_json(text)
                    /\ pc' = "step2"
                    /\ UNCHANGED response

\* step 2: validation search
Step2_ValidationSearch ==
    /\ pc = "step2"
    /\ UNCHANGED <<search_configured, gen_reply, ocr_data, contact_query, validated_data,
                   enrichment_search_results, final_data, sink_payload, save_result>>
    /\ IF ocr_data.k # "obj"
       THEN /\ UNCHANGED <<search_query, contact_query, google_results_list, calls>>
            /\ Fail(500)
       ELSE /\ search_query' = BuildQuery(ocr_data.d)
            /\ IF BuildQuery(ocr_data.d) # <<>>
               THEN \E x \in SearchExchanges :
                      /\ calls' = Append(calls, Call("search", SearchOutcome(search_configured, x)))
                      /\ IF search_google(search_configured, x).raised
                         THEN /\ UNCHANGED google_results_list
                              /\ Fail(500)
                         ELSE /\ google_results_list' = search_google(search_configured, x).value
                              /\ pc' = "step3"
                              /\ UNCHANGED response
               ELSE /\ google_results_list' = None
                    /\ pc' = "step3"
                    /\ UNCHANGED <<calls, response>>

\* variant: an unparseable validation reply is replaced by an empty record
Step3_ValidateDefaulting ==
    /\ pc = "step3"
    /\ UNCHANGED <<search_configured, ocr_data, search_query, contact_query, google_results_list,
                   enrichment_search_results, final_data, sink_payload, save_result>>
    /\ \/ /\ calls' = Append(calls, Call("gen_validate", "exception"))
          /\ UNCHANGED <<gen_reply, validated_data>>
          /\ Fail(500)
       \/ \E text \in StrictReplies(ValidateDocs) :
            /\ calls' = Append(calls, Call("gen_validate", "reply"))
            /\ gen_reply' = text
            /\ validated_data' = IF JsonLoads(text) = ParseError THEN Obj(EmptyDict)
                                 ELSE JsonLoads(text)
            /\ pc' = "step4"
            /\ UNCHANGED response

\* AI step 3: validation call
Step3_Validate ==
    /\ pc = "step3"
    /\ UNCHANGED <<search_configured, ocr_data, search_query, contact_query, google_results_list,
                   enrichment_search_results, final_data, sink_payload, save_result>>
    /\ \/ /\ calls' = Append(calls, Call("gen_validate", "exception"))
          /\ UNCHANGED <<gen_reply, validated_data>>
          /\ Fail(500)
       \/ \E text \in StrictReplies(ValidateDocs) :
            /\ calls' = Append(calls, Call("gen_validate", "reply"))
            /\ gen_reply' = text
            /\ IF JsonLoads(text) = ParseError
               THEN /\ UNCHANGED validated_data
                    /\ Fail(500)
               ELSE /\ validated_data' = JsonLoads(text)
                    /\ pc' = "step4"
                    /\ UNCHANGED response

\* variant: the presence of the key decides, not its value
ShouldEnrichIfPresent(d) == "is_validated" \in DOMAIN d

\* if validated_data.get("is_validated")
ShouldEnrich(d) == Truthy(Get(d, "is_validated", JNull))

\* step 4: targeted search for enrichment
Step4_EnrichmentSearch ==
    /\ pc = "step4"
    /\ UNCHANGED <<search_configured, gen_reply, ocr_data, search_query, google_results_list,
                   validated_data, final_data, sink_payload, save_result>>
    /\ IF validated_data.k # "obj"
       THEN /\ UNCHANGED <<contact_query, enrichment_search_results, calls>>
            /\ Fail(500)
       ELSE IF ShouldEnrich(validated_data.d)
            THEN \E x \in SearchExchanges :
                   /\ contact_query' = ContactQuery(validated_data.d)
                   /\ calls' = Append(calls, Call("search", SearchOutcome(search_configured, x)))
                   /\ IF search_google(search_configured, x).raised
                      THEN /\ UNCHANGED enrichment_search_results
                           /\ Fail(500)
                      ELSE /\ enrichment_search_results' = search_google(search_configured, x).value
                           /\ pc' = "step5"
                           /\ UNCHANGED response
            ELSE /\ enrichment_search_results' = None
                 /\ pc' = "step5"
                 /\ UNCHANGED <<contact_query, calls, response>>

\* variant: the merge is made whatever the search returned
HasResultsAlways(results) == results = results

\* if enrichment_search_results
HasResults(results) == results # None

\* step 5: final merge and enrichment
Step5_Merge ==
    /\ pc = "step5"
    /\ UNCHANGED <<search_configured, ocr_data, search_query, contact_query, google_results_list,
                   validated_data, enrichment_search_results, sink_payload, save_result>>
    /\ IF HasResults(enrichment_search_results)
       THEN \/ /\ calls' = Append(calls, Call("gen_enrich", "exception"))
               /\ UNCHANGED <<gen_reply, final_data>>
               /\ Fail(500)
            \/ \E text \in StrictReplies(EnrichDocs) :
                 /\ calls' = Append(calls, Call("gen_enrich", "reply"))
                 /\ gen_reply' = text
                 /\ IF JsonLoads(text) = ParseError
                    THEN /\ UNCHANGED final_data
                         /\ Fail(500)
                    ELSE /\ final_data' = JsonLoads(text)
                         /\ pc' = "finalize"
                         /\ UNCHANGED response
       ELSE /\ final_data' = validated_data
            /\ pc' = "finalize"
            /\ UNCHANGED <<gen_reply, calls, response>>

\* variant: every non-empty phone is escaped
StartsWithAnything(s) == s # <<>>

\* str.startswith('+')
StartsWithPlus(s) == s # <<>> /\ Head(s) = "+"

\* the phone escape and the removal of the slogan
Finalized(d) ==
    LET phone_number == Get(d, "phone", JStr(<<>>))
        escaped == IF Truthy(phone_number) /\ StartsWithPlus(phone_number.s)
                   THEN Update(d, [phone |-> JStr(<<"'">> \o phone_number.s)])
                   ELSE d
    IN IF "slogan" \in DOMAIN escaped THEN Del(escaped, "slogan") ELSE escaped

\* final_data is the validated_data object itself when no merge was made
Aliased == enrichment_search_results = None

Finalize ==
    /\ pc = "finalize"
    /\ UNCHANGED <<search_configured, gen_reply, ocr_data, search_query, contact_query, google_results_list,
                   enrichment_search_results, calls, sink_payload, save_result>>
    /\ IF \/ final_data.k # "obj"
          \/ LET phone_number == Get(final_data.d, "phone", JStr(<<>>))
             IN Truthy(phone_number) /\ phone_number.t # "str"
       THEN /\ UNCHANGED <<final_data, validated_data>>
            /\ Fail(500)
       ELSE /\ final_data' = Obj(Finalized(final_data.d))
            /\ validated_data' = IF Aliased THEN Obj(Finalized(final_data.d))
                                 ELSE validated_data
            /\ pc' = "step6"
            /\ UNCHANGED response

\* variant: any answer with a good status counts as saved
SinkSavedAnyAnswer(x) == x.res = "ok"

\* does the sink's answer count as a successful save
SinkSaved(x) ==
    /\ x.res = "ok"
    /\ x.body.k = "obj"
    /\ Truthy(Get(x.body.d, "success", JNull))

\* step 6: submission to the sink, then the response
Step6_Submit ==
    /\ pc = "step6"
    /\ UNCHANGED <<search_configured, gen_reply, ocr_data, search_query, contact_query, google_results_list,
                   validated_data, enrichment_search_results, final_data>>
    /\ pc' = "done"
    /\ sink_payload' = final_data.d
    /\ \E x \in SinkExchanges :
         /\ calls' = Append(calls, Call("sink", x.res))
         /\ save_result' = IF x.res = "ok" THEN x.body ELSE save_result
         /\ response' = IF ~SinkSaved(x) THEN ErrorResponse(502)
                        ELSE IF OCRResponseRejects(final_data.d) THEN ErrorResponse(500)
                        ELSE RecordResponse(OCRResponse(final_data.d))

Next ==
    \/ Step1_Extract
    \/ Step2_ValidationSearch
    \/ Step3_Validate
    \/ Step4_EnrichmentSearch
    \/ Step5_Merge
    \/ Finalize
    \/ Step6_Submit

Spec == Init /\ [][Next]_vars

(***************************************************************************)
(* Vocabulary of the properties                                            *)
(***************************************************************************)
CallIdx(op) == {i \in DOMAIN calls : calls[i].op = op}
Called(op) == CallIdx(op) # {}
SinkCalled == Called("sink")
\* call i was made after the validation call
AfterValidate(i) == \E j \in 1..(i - 1) : calls[j].op = "gen_validate"
LastCall == calls[Len(calls)]
\* text of a string-valued key, empty when the key is missing
Text(d, key) == IF key \in DOMAIN d /\ d[key].t = "str" THEN d[key].s ELSE <<>>
Escaped(v) ==
    IF v.t = "str" /\ v.s # <<>> /\ v.s[1] = "+" THEN JStr(<<"'">> \o v.s) ELSE v

(***************************************************************************)
(* C1: whenever the sink was called and did not report success (transport  *)
(* error, bad status, or an answer whose 'success' is false or missing),   *)
(* the request ends in an error response without a record; a record is     *)
(* returned only after the sink reported success.                          *)
(***************************************************************************)
SinkReportedSuccess ==
    /\ \E i \in DOMAIN calls : calls[i] = Call("sink", "ok")
    /\ save_result.k = "obj"
    /\ "success" \in DOMAIN save_result.d
    /\ save_result.d["success"] = JBool(TRUE)

C1_SinkFailureIsFatal ==
    /\ (SinkCalled /\ ~SinkReportedSuccess) =>
          /\ pc = "done"
          /\ response.kind = "error"
          /\ response.rec = EmptyDict
    /\ response.kind = "record" => SinkReportedSuccess

\* extraction, validation and enrichment succeeded, the sink answered
\* success=false, and the caller got an error
C1_Witness ==
    /\ Called("gen_enrich")
    /\ SinkCalled
    /\ save_result = Obj([success |-> JBool(FALSE), message |-> JStr(<<"m">>)])
    /\ ~OCRResponseRejects(sink_payload)
    /\ response = ErrorResponse(502)

(***************************************************************************)
(* C2: when the validation reply has is_validated = false, no search and   *)
(* no enrichment call follow the validation call, and the record that is   *)
(* finalized is the validated record.                                      *)
(***************************************************************************)
ValidationSaidFalse ==
    /\ validated_data.k = "obj"
    /\ "is_validated" \in DOMAIN validated_data.d
    /\ validated_data.d["is_validated"] = JBool(FALSE)

C2_NoEnrichmentWhenNotValidated ==
    ValidationSaidFalse =>
        /\ \A i \in DOMAIN calls : AfterValidate(i) => calls[i].op = "sink"
        /\ contact_query = <<>>
        /\ enrichment_search_results = None
        /\ pc \notin {"step4", "step5"} => final_data = validated_data

C2_Witness ==
    /\ ValidationSaidFalse
    /\ pc = "finalize"
    /\ final_data = validated_data

(***************************************************************************)
(* C3: when the search made after validation returns nothing, no           *)
(* enrichment call is made, and the record posted to the sink and returned *)
(* is the validation reply with the phone escaped when it starts with '+'  *)
(* and without the slogan.                                                 *)
(***************************************************************************)
SecondSearchEmpty ==
    \E i \in CallIdx("search") : AfterValidate(i) /\ calls[i].res # "items"

C3_Expected(d) == [key \in DOMAIN d \ {"slogan"} |-> IF key = "phone" THEN Escaped(d[key]) ELSE d[key]]

C3_NoResultsKeepsValidatedRecord ==
    SecondSearchEmpty =>
        /\ ~Called("gen_enrich")
        /\ LET reply == JsonLoads(gen_reply).d
           IN /\ Truthy(Get(reply, "is_validated", JNull))
              /\ SinkCalled => sink_payload = C3_Expected(reply)
              /\ response.kind = "record" =>
                    \A f \in Fields :
                       response.rec[f] = Get(C3_Expected(reply), f, FieldDefault(f))

C3_Witness ==
    /\ SecondSearchEmpty
    /\ response.kind = "record"
    /\ "slogan" \in DOMAIN JsonLoads(gen_reply).d
    /\ response.rec["phone"] = JStr(<<"'", "+", "5">>)

(***************************************************************************)
(* C4: a request ends either with a record holding exactly the eleven      *)
(* fields, ten strings and one boolean, none null, and no slogan, or with  *)
(* an error response that carries no field; before the end there is no     *)
(* response.                                                               *)
(***************************************************************************)
C4_Strings == {"company", "name", "title", "phone", "email", "address", "website",
               "validation_source", "about_the_company", "location"}

C4_CompleteRecordOrError ==
    /\ pc # "done" => response = NoResponse
    /\ pc = "done" =>
         \/ /\ response.kind = "record"
            /\ DOMAIN response.rec = C4_Strings \cup {"is_validated"}
            /\ \A f \in C4_Strings : response.rec[f].t = "str"
            /\ response.rec["is_validated"].t = "bool"
            /\ "slogan" \notin DOMAIN response.rec
         \/ /\ response.kind = "error"
            /\ response.status \in {500, 502}
            /\ response.rec = EmptyDict

\* a record was returned although the last reply had a slogan and no
\* about_the_company key
C4_Witness ==
    /\ response.kind = "record"
    /\ "slogan" \in DOMAIN JsonLoads(gen_reply).d
    /\ "about_the_company" \notin DOMAIN JsonLoads(gen_reply).d
    /\ response.rec["about_the_company"] = JStr(<<>>)

(***************************************************************************)
(* C5: the validation search query is company+slogan, else name+company,   *)
(* else company, else slogan, else name; when all three are empty no       *)
(* search is made and validation still runs without results.               *)
(***************************************************************************)
C5_QueryPrecedence ==
    (ocr_data.k = "obj" /\ pc \notin {"step1", "step2"}) =>
        LET c == Text(ocr_data.d, "company")
            n == Text(ocr_data.d, "name")
            s == Text(ocr_data.d, "slogan")
        IN /\ (c # <<>> /\ s # <<>>) => search_query = c \o <<" ">> \o s
           /\ (c # <<>> /\ s = <<>> /\ n # <<>>) => search_query = n \o <<" ">> \o c
           /\ (c # <<>> /\ s = <<>> /\ n = <<>>) => search_query = c
           /\ (c = <<>> /\ s # <<>>) => search_query = s
           /\ (c = <<>> /\ s = <<>> /\ n # <<>>) => search_query = n
           /\ (c = <<>> /\ s = <<>> /\ n = <<>>) =>
                 /\ search_query = <<>>
                 /\ google_results_list = None
                 /\ Len(calls) >= 2 => calls[2].op = "gen_validate"
                 /\ pc = "step3" \/ Called("gen_validate")
           /\ (c # <<>> \/ s # <<>> \/ n # <<>>) => calls[2].op = "search"

\* company "A", slogan "S", empty name: the query is "A S"
C5_Witness ==
    /\ pc = "step3"
    /\ ocr_data = Obj([company |-> JStr(<<"A">>), name |-> JStr(<<>>), slogan |-> JStr(<<"S">>)])
    /\ search_query = <<"A", " ", "S">>

(***************************************************************************)
(* C6: finalization prepends one apostrophe to a phone that starts with    *)
(* '+', leaves any other phone as it is and changes no other field (the    *)
(* slogan aside); the record posted to the sink and the record returned    *)
(* carry the finalized phone.                                              *)
(***************************************************************************)
C6_PhoneRule(before, after) ==
    /\ DOMAIN after = DOMAIN before \ {"slogan"}
    /\ \A key \in DOMAIN after :
          after[key] = IF key = "phone" THEN Escaped(before[key]) ELSE before[key]

C6_Delivered ==
    /\ SinkCalled => sink_payload = final_data.d
    /\ response.kind = "record" =>
          response.rec["phone"] = Get(final_data.d, "phone", JStr(<<>>))

C6_PhoneEscape ==
    /\ []C6_Delivered
    /\ [][(pc = "finalize" /\ pc' = "step6") => C6_PhoneRule(final_data.d, final_data'.d)]_vars

C6_Witness ==
    /\ response.kind = "record"
    /\ Called("gen_enrich")
    /\ "phone" \in DOMAIN JsonLoads(gen_reply).d
    /\ JsonLoads(gen_reply).d["phone"] = JStr(<<"+", "5">>)
    /\ response.rec["phone"] = JStr(<<"'", "+", "5">>)
    /\ sink_payload["phone"] = JStr(<<"'", "+", "5">>)

(***************************************************************************)
(* C7: in every record returned, validation_source is non-empty exactly    *)
(* when is_validated is true.                                              *)
(***************************************************************************)
C7_SourceIffValidated ==
    response.kind = "record" =>
        (response.rec["validation_source"].s # <<>> <=> response.rec["is_validated"].b)

(***************************************************************************)
(* C8: when the enrichment call ran, every non-empty string field of the   *)
(* validated record has the same value in the record the enrichment call   *)
(* produced.                                                               *)
(***************************************************************************)
C8_EnrichmentPreserves ==
    (pc = "finalize" /\ Called("gen_enrich") /\ final_data.k = "obj") =>
        \A key \in DOMAIN validated_data.d :
            Text(validated_data.d, key) # <<>> =>
                /\ key \in DOMAIN final_data.d
                /\ final_data.d[key] = validated_data.d[key]

(***************************************************************************)
(* C9: a search never ends the request: the step that makes a search       *)
(* leaves the request at the next stage without a response, a search that  *)
(* failed or found nothing yields None, and once extraction produced an    *)
(* object the validation call is made.                                     *)
(***************************************************************************)
C9_AfterSearch ==
    (Len(calls') = Len(calls) + 1 /\ calls'[Len(calls')].op = "search") =>
        /\ response' = NoResponse
        /\ IF Called("gen_validate")
           THEN /\ pc' = "step5"
                /\ calls'[Len(calls')].res # "items" => enrichment_search_results' = None
           ELSE /\ pc' = "step3"
                /\ calls'[Len(calls')].res # "items" => google_results_list' = None

C9_ValidationInvoked ==
    (ocr_data.k = "obj" /\ pc \notin {"step1", "step2"}) =>
        pc = "step3" \/ Called("gen_validate")

C9_SearchFailureSwallowed == []C9_ValidationInvoked /\ [][C9_AfterSearch]_vars

\* both searches failed and the caller still got a record
C9_Witness ==
    /\ response.kind = "record"
    /\ \E i \in CallIdx("search") : ~AfterValidate(i) /\ calls[i].res = "transport_error"
    /\ \E i \in CallIdx("search") : AfterValidate(i) /\ calls[i].res = "http_error"

(***************************************************************************)
(* C10: the sink is called at most once, as the last call, after the       *)
(* extraction, validation and (if made) enrichment calls in this order     *)
(* each gave an object and after finalization; a generation call that      *)
(* fails or whose reply cannot be parsed is the last call of the request,  *)
(* which ends in an error response.                                        *)
(***************************************************************************)
GenOps == {"gen_extract", "gen_validate", "gen_enrich"}
Rank(op) ==
    CASE op = "gen_extract" -> 1
      [] op = "gen_validate" -> 2
      [] op = "gen_enrich" -> 3
      [] op = "sink" -> 4
      [] OTHER -> 0
Parse(op, text) == IF op = "gen_extract" THEN parse_openai_json(text) ELSE JsonLoads(text)

C10_OrderedFailFast ==
    /\ Cardinality(CallIdx("sink")) <= 1
    /\ \A i, j \in DOMAIN calls :
          (i < j /\ Rank(calls[i].op) > 0 /\ Rank(calls[j].op) > 0) =>
              Rank(calls[i].op) < Rank(calls[j].op)
    /\ SinkCalled =>
          /\ LastCall.op = "sink"
          /\ calls[1] = Call("gen_extract", "reply") /\ ocr_data.k = "obj"
          /\ \E i \in DOMAIN calls : calls[i] = Call("gen_validate", "reply")
          /\ validated_data.k = "obj"
          /\ final_data.k = "obj"
          /\ "slogan" \notin DOMAIN sink_payload
          /\ Escaped(Get(sink_payload, "phone", JNull)) = Get(sink_payload, "phone", JNull)
    /\ \A i \in DOMAIN calls :
          (calls[i].op \in GenOps /\ \A j \in DOMAIN calls : j > i => calls[j].op \notin GenOps) =>
              ((calls[i].res = "exception" \/ Parse(calls[i].op, gen_reply) = ParseError) =>
                  /\ i = Len(calls)
                  /\ pc = "done"
                  /\ response.kind = "error")

\* the enrichment reply could not be parsed: error, and the sink was not called
C10_Witness ==
    /\ calls # <<>>
    /\ LastCall = Call("gen_enrich", "reply")
    /\ JsonLoads(gen_reply) = ParseError
    /\ response = ErrorResponse(500)
    /\ ~SinkCalled

====
